---- MODULE Spec2Model ----
(***************************************************************************)
(* Model of xchainer/routines/connection.cc: the dimension arithmetic      *)
(* (GetConvOutDim, GetConvTransposeOutDim) and the three operators Conv,   *)
(* ConvTranspose and ConvGradW with the gradient functions they register.  *)
(***************************************************************************)
EXTENDS Integers, Sequences, FiniteSets, TLC

VARIABLES dim, graphs, parent, call, node

vars == <<dim, graphs, parent, call, node>>

\* ------------------------------------------------------------------ bounds
MaxDim == 3
MaxKernel == 2
MaxStride == 2
MaxPad == 1
MaxBatch == 2
MaxChan == 2

\* ------------------------------------------------- dimension arithmetic
\* C++ integer division: the quotient is truncated toward zero.
TruncDiv(a, b) == IF a >= 0 THEN a \div b ELSE -((-a) \div b)

\* Mutant of GetConvOutDim: the cover_all branch loses its "- 1".
GetConvOutDim_NoMinusOne(in_dim, kernel_size, stride, pad, cover_all) ==
    IF cover_all
    THEN TruncDiv(in_dim + pad * 2 - kernel_size + stride, stride) + 1
    ELSE TruncDiv(in_dim + pad * 2 - kernel_size, stride) + 1

GetConvOutDim(in_dim, kernel_size, stride, pad, cover_all) ==
    IF cover_all
    THEN TruncDiv(in_dim + pad * 2 - kernel_size + stride - 1, stride) + 1
    ELSE TruncDiv(in_dim + pad * 2 - kernel_size, stride) + 1

\* Mutant of GetConvTransposeOutDim: the cover_all branch is the plain one.
GetConvTransposeOutDim_SameBranch(in_dim, kernel_size, stride, pad, cover_all) ==
    stride * (in_dim - 1) + kernel_size - 2 * pad

GetConvTransposeOutDim(in_dim, kernel_size, stride, pad, cover_all) ==
    IF cover_all
    THEN stride * (in_dim - 1) + kernel_size - stride + 1 - 2 * pad
    ELSE stride * (in_dim - 1) + kernel_size - 2 * pad

\* ------------------------------------ specification of the pure functions
NoDim == [phase |-> "none"]
NoNode == [op |-> "none"]
NoCall == [via |-> "none"]

DimInputs ==
    [in_dim : 0..MaxDim, kernel_size : 1..MaxKernel, stride : 1..MaxStride,
     pad : 0..MaxPad, cover_all : BOOLEAN]

InitDim ==
    /\ \E a \in DimInputs : dim = [phase |-> "input", arg |-> a]
    /\ graphs = {}
    /\ parent = NoNode
    /\ call = NoCall
    /\ node = NoNode

\* out = GetConvOutDim(in, kernel, stride, pad, cover_all)
ApplyConvOutDim ==
    /\ dim.phase = "input"
    /\ dim' = [phase |-> "conv", arg |-> dim.arg,
               out |-> GetConvOutDim(dim.arg.in_dim, dim.arg.kernel_size,
                                     dim.arg.stride, dim.arg.pad, dim.arg.cover_all)]
    /\ UNCHANGED <<graphs, parent, call, node>>

\* back = GetConvTransposeOutDim(out, kernel, stride, pad, cover_all)
ApplyConvTransposeOutDim ==
    /\ dim.phase = "conv"
    /\ dim' = [phase |-> "back", arg |-> dim.arg, out |-> dim.out,
               back |-> GetConvTransposeOutDim(dim.out, dim.arg.kernel_size,
                                               dim.arg.stride, dim.arg.pad,
                                               dim.arg.cover_all)]
    /\ UNCHANGED <<graphs, parent, call, node>>

NextDim == ApplyConvOutDim \/ ApplyConvTransposeOutDim

SpecDim == InitDim /\ [][NextDim]_vars

\* The numerator in + 2*pad - kernel of both formulas.
Numer(a) == a.in_dim + 2 * a.pad - a.kernel_size

\* C7 (as stated): for every in >= 0, kernel >= 1, stride >= 1, pad >= 0,
\* also when in + 2*pad < kernel, GetConvOutDim returns floor(numer/stride)+1
\* without cover_all and ceil(numer/stride)+1 with it.
C7_FloorCeilEverywhere ==
    dim.phase = "conv" =>
        dim.out = (IF dim.arg.cover_all
                   THEN -((-Numer(dim.arg)) \div dim.arg.stride) + 1
                   ELSE (Numer(dim.arg) \div dim.arg.stride) + 1)

\* C7 (amended): the floor/ceiling reference is met whenever the numerator
\* in + 2*pad - kernel is non-negative.
C7_FloorCeilNonNegative ==
    (dim.phase = "conv" /\ Numer(dim.arg) >= 0) =>
        dim.out = (IF dim.arg.cover_all
                   THEN -((-Numer(dim.arg)) \div dim.arg.stride) + 1
                   ELSE (Numer(dim.arg) \div dim.arg.stride) + 1)

\* GetConvOutDim applied with cover_all on a numerator the stride does not
\* divide, where floor and ceiling differ.
C7_Witness ==
    /\ dim.phase = "conv"
    /\ dim.arg.cover_all
    /\ Numer(dim.arg) >= 1
    /\ Numer(dim.arg) % dim.arg.stride # 0

ValidDim(a) == a.in_dim >= 1 /\ Numer(a) >= 0

\* C1 (as stated): for every valid in, kernel, stride, pad and both values of
\* cover_all the transposed formula maps GetConvOutDim's result back to in.
C1_RoundTrip ==
    (dim.phase = "back" /\ ValidDim(dim.arg)) => dim.back = dim.arg.in_dim

\* C1 (amended): the round trip returns in minus the remainder the division
\* dropped: in - ((in + 2*pad - kernel) mod stride) without cover_all and
\* in - ((in + 2*pad - kernel - 1) mod stride) with it; so it returns in
\* exactly when that remainder is zero.
C1_RoundTripUpToRemainder ==
    (dim.phase = "back" /\ ValidDim(dim.arg)) =>
        dim.back = dim.arg.in_dim -
            (IF dim.arg.cover_all
             THEN (Numer(dim.arg) - 1) % dim.arg.stride
             ELSE Numer(dim.arg) % dim.arg.stride)

\* A round trip with cover_all that does return in although stride > 1.
C1_Witness ==
    /\ dim.phase = "back"
    /\ ValidDim(dim.arg)
    /\ dim.arg.cover_all
    /\ dim.arg.stride > 1
    /\ dim.back = dim.arg.in_dim

\* ------------------------------------------------------- arrays and lists
GraphIds == {"g1", "g2"}

Nullopt == [has |-> FALSE]
Some(v) == [has |-> TRUE, val |-> v]

Tensor(shape, tags, dtype) == [shape |-> shape, tags |-> tags, dtype |-> dtype]
NoTensor == [shape |-> <<>>, tags |-> {}, dtype |-> "none"]

ndim(a) == Len(a.shape)

\* The element at the C++ (0-based) index i.
At(s, i) == s[i + 1]

\* StackVector{x_shape.begin() + 2, x_shape.end()}
Spatial(shape) == SubSeq(shape, 3, Len(shape))

\* Array::AsConstant: the same array without the edges of the graphs in ids.
AsConstant(a, ids) == [a EXCEPT !.tags = @ \ ids]

RECURSIVE KeepAxes(_, _, _)
KeepAxes(shape, i, axes) ==
    IF i >= Len(shape) THEN <<>>
    ELSE (IF i \in axes THEN <<>> ELSE <<At(shape, i)>>) \o KeepAxes(shape, i + 1, axes)

\* Sum(a, axis, keepdims): the axes listed are reduced away.
Sum(a, axis, keepdims) ==
    LET ax == {axis[j] : j \in 1..Len(axis)}
    IN  Tensor(IF keepdims
               THEN [j \in 1..Len(a.shape) |-> IF (j - 1) \in ax THEN 1 ELSE a.shape[j]]
               ELSE KeepAxes(a.shape, 0, ax),
               a.tags, a.dtype)

\* ---------------------------------------------------------------- device
\* Device::Conv: the shapes the kernel accepts and the shape it returns.
DeviceConvOk(x, w, b, stride, pad, cover_all) ==
    /\ ndim(x) >= 3
    /\ ndim(w) = ndim(x)
    /\ Len(stride) = ndim(x) - 2
    /\ Len(pad) = ndim(x) - 2
    /\ x.shape[2] = w.shape[2]
    /\ b.has => b.val.shape = <<w.shape[1]>>
    /\ \A i \in 1..(ndim(x) - 2) :
           GetConvOutDim(x.shape[i + 2], w.shape[i + 2], stride[i], pad[i], cover_all) >= 1

DeviceConv(x, w, b, stride, pad, cover_all) ==
    Tensor(<<x.shape[1], w.shape[1]>> \o
               [i \in 1..(ndim(x) - 2) |->
                   GetConvOutDim(x.shape[i + 2], w.shape[i + 2], stride[i], pad[i], cover_all)],
           {}, x.dtype)

\* Device::ConvTranspose
DeviceConvTransposeOk(x, w, b, stride, pad, out_size) ==
    /\ ndim(x) >= 3
    /\ ndim(w) = ndim(x)
    /\ Len(stride) = ndim(x) - 2
    /\ Len(pad) = ndim(x) - 2
    /\ Len(out_size) = ndim(x) - 2
    /\ x.shape[2] = w.shape[1]
    /\ b.has => b.val.shape = <<w.shape[2]>>
    /\ \A i \in 1..Len(out_size) : out_size[i] >= 1

DeviceConvTranspose(x, w, b, stride, pad, out_size) ==
    Tensor(<<x.shape[1], w.shape[2]>> \o out_size, {}, x.dtype)

\* Device::ConvGradWeight
DeviceConvGradWeightOk(w_dtype, w_shape, x, gy, stride, pad, cover_all) ==
    /\ Len(w_shape) >= 3
    /\ ndim(x) = Len(w_shape)
    /\ ndim(gy) = Len(w_shape)
    /\ Len(stride) = Len(w_shape) - 2
    /\ Len(pad) = Len(w_shape) - 2
    /\ x.shape[1] = gy.shape[1]
    /\ x.shape[2] = w_shape[2]
    /\ gy.shape[2] = w_shape[1]

DeviceConvGradWeight(w_dtype, w_shape, x, gy, stride, pad, cover_all) ==
    Tensor(w_shape, {}, w_dtype)

\* ---------------------------------------------------- graph registration
NoFn == [fn |-> "none"]

\* internal::SetUpOpNodes(name, inputs, out, backward_functions): the op node
\* attached to out, which joins the graphs of its inputs.
SetUpOpNodes(name, inputs, out, backward_functions) ==
    [op |-> name,
     inputs |-> inputs,
     out |-> [out EXCEPT !.tags = UNION {inputs[j].tags : j \in 1..Len(inputs)}],
     fns |-> backward_functions]

\* The outcome of one operator call.
NoReg == [op |-> "none"]

Aborted(op, args, status, events, idx) ==
    [op |-> op, args |-> args, status |-> status, events |-> events, idx |-> idx,
     flag |-> FALSE, out |-> NoTensor, reg |-> NoReg]

\* flag: the cover_all the call's closures capture.
Returned(op, args, events, idx, flag, reg) ==
    [op |-> op, args |-> args, status |-> "ok", events |-> events, idx |-> idx,
     flag |-> flag, out |-> reg.out, reg |-> reg]

\* -------------------------------------------------------------- ConvGradW
\* The closures ConvGradW hands to SetUpOpNodes, with what each captures.
ConvGradWBackwardFunctions(x, gy, stride, pad, cover_all) ==
    << [fn |-> "ConvGradW.x", x_shape |-> x.shape, gy |-> gy, stride |-> stride, pad |-> pad],
       [fn |-> "ConvGradW.gy", x |-> x, stride |-> stride, pad |-> pad,
        cover_all |-> cover_all] >>

ConvGradW(w_dtype, w_shape, x, gy, stride, pad, cover_all, env) ==
    LET nd == Len(w_shape) - 2
        args == [w_dtype |-> w_dtype, w_shape |-> w_shape, x |-> x, gy |-> gy,
                 stride |-> stride, pad |-> pad, cover_all |-> cover_all]
        out == DeviceConvGradWeight(w_dtype, w_shape, x, gy, stride, pad, cover_all)
    IN  IF ~(/\ nd > 0
             /\ ndim(x) = nd + 2
             /\ ndim(gy) = nd + 2
             /\ Len(stride) = nd
             /\ Len(pad) = nd)
        THEN Aborted("ConvGradW", args, "assert", <<"assert">>, {})
        ELSE IF ~(env.devOk /\ DeviceConvGradWeightOk(w_dtype, w_shape, x, gy, stride, pad,
                                                      cover_all))
        THEN Aborted("ConvGradW", args, "device", <<"assert", "device">>, {})
        ELSE Returned("ConvGradW", args, <<"assert", "device", "SetUpOpNodes">>, {}, cover_all,
                      SetUpOpNodes("conv-grad-weight", <<x, gy>>, out,
                                   ConvGradWBackwardFunctions(x, gy, stride, pad, cover_all)))

\* ------------------------------------------------------------------- Conv
\* Mutant of ConvBackwardFunctions: the bias closure is listed first.
ConvBackwardFunctions_BiasFirst(x, w, b, stride, pad, cover_all) ==
    (IF b.has THEN << [fn |-> "Conv.b"] >> ELSE << >>) \o
    << [fn |-> "Conv.x", x_shape |-> x.shape, w |-> w, stride |-> stride, pad |-> pad],
       [fn |-> "Conv.w", w_dtype |-> w.dtype, w_shape |-> w.shape, x |-> x,
        stride |-> stride, pad |-> pad, cover_all |-> cover_all] >>

\* The closures Conv hands to SetUpOpNodes, with what each captures.
ConvBackwardFunctions(x, w, b, stride, pad, cover_all) ==
    << [fn |-> "Conv.x", x_shape |-> x.shape, w |-> w, stride |-> stride, pad |-> pad],
       [fn |-> "Conv.w", w_dtype |-> w.dtype, w_shape |-> w.shape, x |-> x,
        stride |-> stride, pad |-> pad, cover_all |-> cover_all] >> \o
    (IF b.has THEN << [fn |-> "Conv.b"] >> ELSE << >>)

Conv(x, w, b, stride, pad, cover_all, env) ==
    LET args == [x |-> x, w |-> w, b |-> b, stride |-> stride, pad |-> pad,
                 cover_all |-> cover_all]
        out == DeviceConv(x, w, b, stride, pad, cover_all)
    IN  IF ~(env.devOk /\ DeviceConvOk(x, w, b, stride, pad, cover_all))
        THEN Aborted("Conv", args, "device", <<"device">>, {})
        ELSE Returned("Conv", args, <<"device", "SetUpOpNodes">>, {}, cover_all,
                      SetUpOpNodes("conv",
                                   IF b.has THEN <<x, w, b.val>> ELSE <<x, w>>,
                                   out,
                                   ConvBackwardFunctions(x, w, b, stride, pad, cover_all)))

\* ---------------------------------------------------------- ConvTranspose
\* real_out_size: the caller's out_size, or the cover_all=false formula.
RealOutSize(x, w, stride, pad, out_size) ==
    IF out_size.has
    THEN out_size.val
    ELSE [j \in 1..(ndim(x) - 2) |->
             GetConvTransposeOutDim(At(x.shape, (j - 1) + 2), At(w.shape, (j - 1) + 2),
                                    At(stride, j - 1), At(pad, j - 1), FALSE)]

\* What a read past the end of a list can do to one iteration of the loop.
OobOutcomes == {"trap", "eq", "ne"}

\* The cover_all detection loop, from iteration i on. The loop runs i over
\* 0..x.ndim()-1 and calls GetConvOutDim(xdim, real_out_size[i],
\* w.shape()[i + 2], stride[i], pad[i]). Once i is past the end of the lists
\* the values read are arbitrary: the comparison goes either way, or the read
\* (or the division by a value read as 0) ends the call.
RECURSIVE DetectCoverAll(_, _, _, _, _, _, _)
DetectCoverAll(i, x, w, real_out_size, stride, pad, oob) ==
    IF ~(i < ndim(x))
    THEN [cover_all |-> FALSE, trap |-> FALSE, idx |-> {}]
    ELSE
        LET xdim == At(x.shape, i)
            inside == /\ i < Len(real_out_size)
                      /\ i + 2 < ndim(w)
                      /\ i < Len(stride)
                      /\ i < Len(pad)
            differs == IF inside
                       THEN xdim # GetConvOutDim(xdim, At(real_out_size, i), At(w.shape, i + 2),
                                                 At(stride, i), At(pad, i) # 0)
                       ELSE At(oob, i - Len(real_out_size)) = "ne"
            trapped == ~inside /\ At(oob, i - Len(real_out_size)) = "trap"
            rest == DetectCoverAll(i + 1, x, w, real_out_size, stride, pad, oob)
            \* x.shape()[i]; real_out_size[i], stride[i], pad[i]; w.shape()[i + 2]
            read == [x |-> i, list |-> i, w |-> i + 2]
        IN  IF trapped THEN [cover_all |-> FALSE, trap |-> TRUE, idx |-> {read}]
            ELSE IF differs THEN [cover_all |-> TRUE, trap |-> FALSE, idx |-> {read}]
            ELSE [rest EXCEPT !.idx = @ \cup {read}]

\* The closures ConvTranspose hands to SetUpOpNodes, with what each captures.
ConvTransposeBackwardFunctions(x, w, b, stride, pad, cover_all) ==
    << [fn |-> "ConvTranspose.x", x_shape |-> x.shape, w |-> w, stride |-> stride,
        pad |-> pad, cover_all |-> cover_all],
       [fn |-> "ConvTranspose.w", w_dtype |-> w.dtype, w_shape |-> w.shape, x |-> x,
        stride |-> stride, pad |-> pad, cover_all |-> cover_all] >> \o
    (IF b.has THEN << [fn |-> "ConvTranspose.b"] >> ELSE << >>)

ConvTranspose(x, w, b, stride, pad, out_size, env) ==
    LET args == [x |-> x, w |-> w, b |-> b, stride |-> stride, pad |-> pad,
                 out_size |-> out_size]
        real_out_size == RealOutSize(x, w, stride, pad, out_size)
        out == DeviceConvTranspose(x, w, b, stride, pad, real_out_size)
        det == DetectCoverAll(0, x, w, real_out_size, stride, pad, env.oob)
    IN  IF ~(env.devOk /\ DeviceConvTransposeOk(x, w, b, stride, pad, real_out_size))
        THEN Aborted("ConvTranspose", args, "device", <<"device">>, {})
        ELSE IF det.trap
        THEN Aborted("ConvTranspose", args, "trap", <<"device", "detect">>, det.idx)
        ELSE Returned("ConvTranspose", args, <<"device", "detect", "SetUpOpNodes">>,
                      det.idx, det.cover_all,
                      SetUpOpNodes("conv_transpose",
                                   IF b.has THEN <<x, w, b.val>> ELSE <<x, w>>,
                                   out,
                                   ConvTransposeBackwardFunctions(x, w, b, stride, pad,
                                                                  det.cover_all)))

\* ----------------------------------------------------- gradient functions
\* Mutant of Conv_x_backward_function: the output size asked for is taken
\* from gout instead of x.
Conv_x_backward_function_GoutSize(c, gout, graph_ids_to_stop_gradient, env) ==
    ConvTranspose(gout, AsConstant(c.w, graph_ids_to_stop_gradient), Nullopt,
                  c.stride, c.pad, Some(Spatial(gout.shape)), env)

\* Conv's x_backward_function
Conv_x_backward_function(c, gout, graph_ids_to_stop_gradient, env) ==
    LET out_size == Spatial(c.x_shape)
    IN  ConvTranspose(gout, AsConstant(c.w, graph_ids_to_stop_gradient), Nullopt,
                      c.stride, c.pad, Some(out_size), env)

\* Conv's w_backward_function
Conv_w_backward_function(c, gout, graph_ids_to_stop_gradient, env) ==
    ConvGradW(c.w_dtype, c.w_shape, AsConstant(c.x, graph_ids_to_stop_gradient), gout,
              c.stride, c.pad, c.cover_all, env)

\* Mutant of BiasAxes: the loop starts at axis 1.
BiasAxes_FromOne(gout) == <<0>> \o [j \in 1..(ndim(gout) - 1) |-> j]

\* Axes axis{0}; for (i = 2; i < gout.ndim(); ++i) axis.emplace_back(i);
BiasAxes(gout) == <<0>> \o [j \in 1..(ndim(gout) - 2) |-> j + 1]

SumCall(gout, axis) ==
    [op |-> "Sum", args |-> [a |-> gout, axis |-> axis, keepdims |-> FALSE],
     status |-> "ok", events |-> <<"Sum">>, idx |-> {}, flag |-> FALSE,
     out |-> Sum(gout, axis, FALSE), reg |-> NoReg]

\* Conv's b_backward_function
Conv_b_backward_function(c, gout, graph_ids_to_stop_gradient, env) ==
    SumCall(gout, BiasAxes(gout))

\* ConvTranspose's x_backward_function
ConvTranspose_x_backward_function(c, gout, graph_ids_to_stop_gradient, env) ==
    Conv(gout, AsConstant(c.w, graph_ids_to_stop_gradient), Nullopt, c.stride, c.pad,
         c.cover_all, env)

\* Mutant of ConvTranspose_w_backward_function: x is passed as captured.
ConvTranspose_w_backward_function_Unwrapped(c, gout, graph_ids_to_stop_gradient, env) ==
    ConvGradW(c.w_dtype, c.w_shape, gout, c.x, c.stride, c.pad, c.cover_all, env)

\* ConvTranspose's w_backward_function
ConvTranspose_w_backward_function(c, gout, graph_ids_to_stop_gradient, env) ==
    ConvGradW(c.w_dtype, c.w_shape, gout, AsConstant(c.x, graph_ids_to_stop_gradient),
              c.stride, c.pad, c.cover_all, env)

\* ConvTranspose's b_backward_function
ConvTranspose_b_backward_function(c, gout, graph_ids_to_stop_gradient, env) ==
    SumCall(gout, BiasAxes(gout))

\* ConvGradW's x_backward_function
ConvGradW_x_backward_function(c, gout, graph_ids_to_stop_gradient, env) ==
    LET out_size == Spatial(c.x_shape)
    IN  IF Len(out_size) # Len(c.stride)
        THEN Aborted("ConvGradW.x", [gout |-> gout], "assert", <<"assert">>, {})
        ELSE
        ConvTranspose(AsConstant(c.gy, graph_ids_to_stop_gradient), gout, Nullopt,
                      c.stride, c.pad, Some(out_size), env)

\* ConvGradW's gy_backward_function
ConvGradW_gy_backward_function(c, gout, graph_ids_to_stop_gradient, env) ==
    Conv(AsConstant(c.x, graph_ids_to_stop_gradient), gout, Nullopt, c.stride, c.pad,
         c.cover_all, env)

\* ------------------------------------------------------------ the inputs
DType == "float32"

AxisParams ==
    [l : 1..MaxDim, k : 1..MaxKernel, s : 1..MaxStride, p : 0..MaxPad]

\* One spatial axis.
Geometry(a) ==
    [ls |-> <<a.l>>, ks |-> <<a.k>>, stride |-> <<a.s>>, pad |-> <<a.p>>]

\* Two spatial axes, alike and not.
PlaneGeometries ==
    { [ls |-> <<3, 3>>, ks |-> <<2, 2>>, stride |-> <<1, 1>>, pad |-> <<0, 0>>],
      [ls |-> <<3, 3>>, ks |-> <<2, 2>>, stride |-> <<2, 2>>, pad |-> <<0, 0>>],
      [ls |-> <<3, 2>>, ks |-> <<2, 1>>, stride |-> <<2, 1>>, pad |-> <<0, 1>>],
      [ls |-> <<2, 3>>, ks |-> <<2, 2>>, stride |-> <<1, 2>>, pad |-> <<0, 0>>] }

Geometries(axes) == {Geometry(a) : a \in axes} \cup PlaneGeometries

Channels == [n : 1..MaxBatch, ci : 1..MaxChan, co : 1..MaxChan]

Bias(has, c, tags) == IF has THEN Some(Tensor(<<c>>, tags, DType)) ELSE Nullopt

\* Valid calls of Conv: every axis has in + 2*pad >= kernel.
ConvInputs(tags) ==
    { [x |-> Tensor(<<c.n, c.ci>> \o g.ls, tags, DType),
       w |-> Tensor(<<c.co, c.ci>> \o g.ks, tags, DType),
       b |-> Bias(hb, c.co, tags),
       stride |-> g.stride, pad |-> g.pad, cover_all |-> ca] :
      g \in Geometries({a \in AxisParams : a.l + 2 * a.p >= a.k}),
      c \in Channels, hb \in BOOLEAN, ca \in BOOLEAN }
    \cup
    \* x (1,3,5,5), w (4,3,3,3) and x (1,3,5,5), w (1,3,3,3); stride 1, pad 0
    { [x |-> Tensor(<<1, 3, 5, 5>>, tags, DType),
       w |-> Tensor(<<co, 3, 3, 3>>, tags, DType),
       b |-> Nullopt, stride |-> <<1, 1>>, pad |-> <<0, 0>>, cover_all |-> FALSE] :
      co \in {1, 4} }

\* The output sizes a caller of ConvTranspose passes: none, or per axis the
\* result of GetConvTransposeOutDim with cover_all false or true.
OutSizes(g) ==
    {Nullopt} \cup
    { Some(os) : os \in
        { o \in [1..Len(g.ls) -> 1..(MaxStride * MaxDim + MaxKernel)] :
            \A j \in 1..Len(g.ls) :
                \E ca \in BOOLEAN :
                    o[j] = GetConvTransposeOutDim(g.ls[j], g.ks[j], g.stride[j], g.pad[j], ca) } }

\* Valid calls of ConvTranspose: every axis has a default output size >= 1.
ConvTransposeInputs(tags) ==
    UNION {
      { [x |-> Tensor(<<c.n, c.ci>> \o g.ls, tags, DType),
         w |-> Tensor(<<c.ci, c.co>> \o g.ks, tags, DType),
         b |-> Bias(hb, c.co, tags),
         stride |-> g.stride, pad |-> g.pad, out_size |-> os] :
        c \in Channels, hb \in BOOLEAN, os \in OutSizes(g) } :
      g \in Geometries({a \in AxisParams :
                           GetConvTransposeOutDim(a.l, a.k, a.s, a.p, FALSE) >= 1}) }

\* The calls made when two graphs exist: a few shapes, with the inputs in
\* both graphs or in one.
GradGeometries ==
    { [ls |-> <<3>>, ks |-> <<2>>, stride |-> <<1>>, pad |-> <<0>>],
      [ls |-> <<3>>, ks |-> <<2>>, stride |-> <<2>>, pad |-> <<1>>],
      [ls |-> <<3, 3>>, ks |-> <<2, 2>>, stride |-> <<1, 1>>, pad |-> <<0, 0>>] }

GradChannels == { [n |-> 1, ci |-> 1, co |-> 1], [n |-> 2, ci |-> 1, co |-> 2] }

GradTags == {{"g1", "g2"}, {"g1"}}

GradConvInputs ==
    { [x |-> Tensor(<<c.n, c.ci>> \o g.ls, tx, DType),
       w |-> Tensor(<<c.co, c.ci>> \o g.ks, tw, DType),
       b |-> Bias(hb, c.co, {"g1", "g2"}),
       stride |-> g.stride, pad |-> g.pad, cover_all |-> ca] :
      g \in GradGeometries, c \in GradChannels, tx \in GradTags, tw \in GradTags,
      hb \in BOOLEAN, ca \in BOOLEAN }

GradConvTransposeInputs ==
    { [x |-> Tensor(<<c.n, c.ci>> \o g.ls, tx, DType),
       w |-> Tensor(<<c.ci, c.co>> \o g.ks, tw, DType),
       b |-> Bias(hb, c.co, {"g1", "g2"}),
       stride |-> g.stride, pad |-> g.pad, out_size |-> Nullopt] :
      g \in GradGeometries, c \in GradChannels, tx \in GradTags, tw \in GradTags,
      hb \in BOOLEAN }

\* What the device and the reads past the end of a list do in one call.
NoOob == [j \in 1..2 |-> "eq"]
Envs == [devOk : BOOLEAN, oob : {NoOob}]
LoopEnvs == Envs \cup [devOk : {TRUE}, oob : [1..2 -> OobOutcomes]]

\* The output gradients handed to a gradient function of n: of the shape of
\* n's output, or (a caller's error) with the last axis missing.
Gouts(n) ==
    IF n = NoNode THEN {}
    ELSE { Tensor(n.out.shape, graphs, DType),
           Tensor(SubSeq(n.out.shape, 1, Len(n.out.shape) - 1), graphs, DType) }

\* ------------------------------------------------------------ the actions
Init ==
    /\ dim = NoDim
    /\ graphs = {}
    /\ parent = NoNode
    /\ call = NoCall
    /\ node = NoNode

Record(via, c, ids, gout, r) ==
    /\ parent' = node
    /\ call' = [via |-> via, fn |-> c, S |-> ids, gout |-> gout, r |-> r]
    /\ node' = IF r.status = "ok" /\ r.reg # NoReg THEN r ELSE node
    /\ UNCHANGED <<dim, graphs>>

\* A caller's Conv(x, w, b, stride, pad, cover_all).
CallConv(inputs) ==
    /\ call = NoCall
    /\ \E a \in inputs, env \in Envs :
          Record("user", NoFn, {}, NoTensor,
                 Conv(a.x, a.w, a.b, a.stride, a.pad, a.cover_all, env))

\* A caller's ConvTranspose(x, w, b, stride, pad, out_size).
CallConvTranspose(inputs) ==
    /\ call = NoCall
    /\ \E a \in inputs, env \in LoopEnvs :
          Record("user", NoFn, {}, NoTensor,
                 ConvTranspose(a.x, a.w, a.b, a.stride, a.pad, a.out_size, env))

\* The gradient functions named fn of the current node, which the backward
\* pass may invoke.
Fns(fn) ==
    IF node = NoNode THEN {}
    ELSE {k \in 1..Len(node.reg.fns) : node.reg.fns[k].fn = fn}

ConvXBackward ==
    \E k \in Fns("Conv.x"), gout \in Gouts(node), ids \in SUBSET graphs, env \in LoopEnvs :
        Record("Conv.x", node.reg.fns[k], ids, gout,
               Conv_x_backward_function(node.reg.fns[k], gout, ids, env))

ConvWBackward ==
    \E k \in Fns("Conv.w"), gout \in Gouts(node), ids \in SUBSET graphs, env \in Envs :
        Record("Conv.w", node.reg.fns[k], ids, gout,
               Conv_w_backward_function(node.reg.fns[k], gout, ids, env))

ConvBBackward ==
    \E k \in Fns("Conv.b"), gout \in Gouts(node), ids \in SUBSET graphs, env \in {[devOk |-> TRUE, oob |-> NoOob]} :
        Record("Conv.b", node.reg.fns[k], ids, gout,
               Conv_b_backward_function(node.reg.fns[k], gout, ids, env))

ConvTransposeXBackward ==
    \E k \in Fns("ConvTranspose.x"), gout \in Gouts(node), ids \in SUBSET graphs, env \in Envs :
        Record("ConvTranspose.x", node.reg.fns[k], ids, gout,
               ConvTranspose_x_backward_function(node.reg.fns[k], gout, ids, env))

ConvTransposeWBackward ==
    \E k \in Fns("ConvTranspose.w"), gout \in Gouts(node), ids \in SUBSET graphs, env \in Envs :
        Record("ConvTranspose.w", node.reg.fns[k], ids, gout,
               ConvTranspose_w_backward_function(node.reg.fns[k], gout, ids, env))

ConvTransposeBBackward ==
    \E k \in Fns("ConvTranspose.b"), gout \in Gouts(node), ids \in SUBSET graphs, env \in {[devOk |-> TRUE, oob |-> NoOob]} :
        Record("ConvTranspose.b", node.reg.fns[k], ids, gout,
               ConvTranspose_b_backward_function(node.reg.fns[k], gout, ids, env))

ConvGradWXBackward ==
    \E k \in Fns("ConvGradW.x"), gout \in Gouts(node), ids \in SUBSET graphs, env \in LoopEnvs :
        Record("ConvGradW.x", node.reg.fns[k], ids, gout,
               ConvGradW_x_backward_function(node.reg.fns[k], gout, ids, env))

ConvGradWGyBackward ==
    \E k \in Fns("ConvGradW.gy"), gout \in Gouts(node), ids \in SUBSET graphs, env \in Envs :
        Record("ConvGradW.gy", node.reg.fns[k], ids, gout,
               ConvGradW_gy_backward_function(node.reg.fns[k], gout, ids, env))

Backward ==
    \/ ConvXBackward
    \/ ConvWBackward
    \/ ConvBBackward
    \/ ConvTransposeXBackward
    \/ ConvTransposeWBackward
    \/ ConvTransposeBBackward
    \/ ConvGradWXBackward
    \/ ConvGradWGyBackward

Next ==
    \/ CallConv(ConvInputs({}))
    \/ CallConvTranspose(ConvTransposeInputs({}))
    \/ Backward

Spec == Init /\ [][Next]_vars

\* The same program with two graphs and stop-gradient sets over them.
InitGrad ==
    /\ dim = NoDim
    /\ graphs = {"g1", "g2"}
    /\ parent = NoNode
    /\ call = NoCall
    /\ node = NoNode

NextGrad ==
    \/ CallConv(GradConvInputs)
    \/ CallConvTranspose(GradConvTransposeInputs)
    \/ Backward

SpecGrad == InitGrad /\ [][NextGrad]_vars

\* ------------------------------------------------- cover_all inference
\* Per axis, GetConvTransposeOutDim of the arguments a of a ConvTranspose call.
TransposeSizes(a, cover_all) ==
    [j \in 1..(ndim(a.x) - 2) |->
        GetConvTransposeOutDim(a.x.shape[j + 2], a.w.shape[j + 2], a.stride[j], a.pad[j],
                               cover_all)]

\* The output size the call resolves to.
Resolved(a) == IF a.out_size.has THEN a.out_size.val ELSE TransposeSizes(a, FALSE)

\* The cover_all flags the x and w gradient functions of the call r captured.
CapturedFlags(r) == {r.reg.fns[k].cover_all : k \in {1, 2}}

\* C2: a ConvTranspose whose resolved output size is, on every axis, the
\* cover_all=false result captures cover_all = false; one whose explicit
\* output size is the cover_all=true result, different from the other on
\* some axis, captures cover_all = true.
C2_CoverAllInference ==
    (call.via = "user" /\ call.r.op = "ConvTranspose" /\ call.r.status = "ok") =>
        LET a == call.r.args
        IN  /\ (Resolved(a) = TransposeSizes(a, FALSE))
                  => CapturedFlags(call.r) = {FALSE}
            /\ (/\ a.out_size.has
                /\ a.out_size.val = TransposeSizes(a, TRUE)
                /\ TransposeSizes(a, TRUE) # TransposeSizes(a, FALSE))
                  => CapturedFlags(call.r) = {TRUE}

\* C10: in a ConvTranspose call on x and w of rank d+2 with stride, pad and
\* output size of length d, every index the detection loop uses into the
\* output size, stride and pad is in 0..d-1, every index into w's shape is in
\* 2..d+1, and the x axis compared is a spatial one (index >= 2).
C10_LoopIndicesInRange ==
    (call.via # "none" /\ call.r.op = "ConvTranspose") =>
        LET d == ndim(call.r.args.x) - 2
        IN  \A read \in call.r.idx :
                /\ read.list \in 0..(d - 1)
                /\ read.w \in 2..(d + 1)
                /\ read.x >= 2

\* ------------------------------------------------- gradient-shape laws
\* Every axis of the Conv call has in + 2*pad >= kernel.
ValidConv(a) ==
    \A j \in 1..(ndim(a.x) - 2) : a.x.shape[j + 2] + 2 * a.pad[j] >= a.w.shape[j + 2]

\* C3: a gradient function of a valid Conv, applied to a gout of the
\* output's shape, returns a tensor of the shape of its input: x's for the
\* x-gradient, w's for the w-gradient, b's for the b-gradient.
C3_ConvGradientShapes ==
    (/\ call.via \in {"Conv.x", "Conv.w", "Conv.b"}
     /\ ValidConv(parent.args)
     /\ call.gout.shape = parent.out.shape
     /\ call.r.status # "device") =>
        /\ call.r.status = "ok"
        /\ call.r.out.shape =
              (CASE call.via = "Conv.x" -> parent.args.x.shape
                 [] call.via = "Conv.w" -> parent.args.w.shape
                 [] call.via = "Conv.b" -> parent.args.b.val.shape)

\* C4: the x-gradient function of a ConvTranspose whose output size is the
\* default or, explicitly, the cover_all=false or cover_all=true result,
\* applied to a gout of the output's shape, returns a tensor whose spatial
\* axes are those of x.
C4_ConvTransposeXGradientShape ==
    (/\ call.via = "ConvTranspose.x"
     /\ Resolved(parent.args) \in
            {TransposeSizes(parent.args, FALSE), TransposeSizes(parent.args, TRUE)}
     /\ call.gout.shape = parent.out.shape
     /\ call.r.status # "device") =>
        /\ call.r.status = "ok"
        /\ Spatial(call.r.out.shape) = Spatial(parent.args.x.shape)

\* ------------------------------------------------------- triangle wiring
WiredFns ==
    {"Conv.x", "Conv.w", "ConvTranspose.x", "ConvTranspose.w", "ConvGradW.x", "ConvGradW.gy"}

\* The operator call the gradient function via of the call p makes on
\* (gout, ids), written from p's own arguments.
Expected(via, p, gout, ids) ==
    CASE via = "Conv.x" ->
           [op |-> "ConvTranspose",
            args |-> [x |-> gout, w |-> AsConstant(p.args.w, ids), b |-> Nullopt,
                      stride |-> p.args.stride, pad |-> p.args.pad,
                      out_size |-> Some(Spatial(p.args.x.shape))]]
      [] via = "Conv.w" ->
           [op |-> "ConvGradW",
            args |-> [w_dtype |-> p.args.w.dtype, w_shape |-> p.args.w.shape,
                      x |-> AsConstant(p.args.x, ids), gy |-> gout,
                      stride |-> p.args.stride, pad |-> p.args.pad,
                      cover_all |-> p.args.cover_all]]
      [] via = "ConvTranspose.x" ->
           [op |-> "Conv",
            args |-> [x |-> gout, w |-> AsConstant(p.args.w, ids), b |-> Nullopt,
                      stride |-> p.args.stride, pad |-> p.args.pad,
                      cover_all |-> p.flag]]
      [] via = "ConvTranspose.w" ->
           [op |-> "ConvGradW",
            args |-> [w_dtype |-> p.args.w.dtype, w_shape |-> p.args.w.shape,
                      x |-> gout, gy |-> AsConstant(p.args.x, ids),
                      stride |-> p.args.stride, pad |-> p.args.pad,
                      cover_all |-> p.flag]]
      [] via = "ConvGradW.x" ->
           [op |-> "ConvTranspose",
            args |-> [x |-> AsConstant(p.args.gy, ids), w |-> gout, b |-> Nullopt,
                      stride |-> p.args.stride, pad |-> p.args.pad,
                      out_size |-> Some(Spatial(p.args.x.shape))]]
      [] via = "ConvGradW.gy" ->
           [op |-> "Conv",
            args |-> [x |-> AsConstant(p.args.x, ids), w |-> gout, b |-> Nullopt,
                      stride |-> p.args.stride, pad |-> p.args.pad,
                      cover_all |-> p.args.cover_all]]

\* The outcome of making the call e directly.
Direct(e, env) ==
    CASE e.op = "Conv" ->
           Conv(e.args.x, e.args.w, e.args.b, e.args.stride, e.args.pad,
                e.args.cover_all, env)
      [] e.op = "ConvTranspose" ->
           ConvTranspose(e.args.x, e.args.w, e.args.b, e.args.stride, e.args.pad,
                         e.args.out_size, env)
      [] e.op = "ConvGradW" ->
           ConvGradW(e.args.w_dtype, e.args.w_shape, e.args.x, e.args.gy, e.args.stride,
                     e.args.pad, e.args.cover_all, env)

\* C5: every gradient function of Conv, ConvTranspose and ConvGradW makes one
\* call, to one of the other two operators, with the arguments of the
\* triangle (stride, pad and cover_all those of the registering call), and
\* its result is that of making this call directly.
C5_TriangleWiring ==
    (call.via \in WiredFns) =>
        LET e == Expected(call.via, parent, call.gout, call.S)
        IN  /\ call.r.op = e.op
            /\ call.r.op # parent.op
            /\ call.r.args = e.args
            /\ \E env \in LoopEnvs : call.r = Direct(e, env)

\* ConvGradW's x-gradient has re-entered ConvTranspose, which registered.
C5_Witness ==
    /\ call.via = "ConvGradW.x"
    /\ call.r.op = "ConvTranspose"
    /\ call.r.status = "ok"
    /\ call.r.args.out_size = Some(Spatial(parent.args.x.shape))

\* ---------------------------------------------------- atomic registration
Count(ev, e) == Cardinality({j \in 1..Len(ev) : ev[j] = e})

InputsInOrder(r) ==
    IF r.op = "ConvGradW" THEN <<r.args.x, r.args.gy>>
    ELSE IF r.args.b.has THEN <<r.args.x, r.args.w, r.args.b.val>>
    ELSE <<r.args.x, r.args.w>>

FnsInOrder(r) ==
    IF r.op = "ConvGradW" THEN <<"ConvGradW.x", "ConvGradW.gy">>
    ELSE IF r.op = "Conv"
    THEN (IF r.args.b.has THEN <<"Conv.x", "Conv.w", "Conv.b">> ELSE <<"Conv.x", "Conv.w">>)
    ELSE (IF r.args.b.has
          THEN <<"ConvTranspose.x", "ConvTranspose.w", "ConvTranspose.b">>
          ELSE <<"ConvTranspose.x", "ConvTranspose.w">>)

\* C6: a call of Conv, ConvTranspose or ConvGradW invokes the device at most
\* once and registers at most once; a call that returns made the device call
\* once, then its one registration, last, of one gradient function per input
\* in input order; a call that fails registered nothing.
C6_AtomicRegistration ==
    (call.via # "none" /\ call.r.op \in {"Conv", "ConvTranspose", "ConvGradW"}) =>
        LET r == call.r
            ev == r.events
        IN  /\ Count(ev, "device") <= 1
            /\ Count(ev, "SetUpOpNodes") <= 1
            /\ (r.status = "ok") =>
                  /\ Count(ev, "device") = 1
                  /\ Count(ev, "SetUpOpNodes") = 1
                  /\ ev[Len(ev)] = "SetUpOpNodes"
                  /\ node = r
                  /\ r.reg.inputs = InputsInOrder(r)
                  /\ [k \in 1..Len(r.reg.fns) |-> r.reg.fns[k].fn] = FnsInOrder(r)
            /\ (r.status # "ok") =>
                  /\ Count(ev, "SetUpOpNodes") = 0
                  /\ r.reg = NoReg
                  /\ node = parent

\* A ConvTranspose with a bias has returned, three gradient functions registered.
C6_Witness ==
    /\ call.via # "none"
    /\ call.r.op = "ConvTranspose"
    /\ call.r.status = "ok"
    /\ call.r.args.b.has
    /\ Len(call.r.reg.fns) = 3

\* ----------------------------------------------------------- bias reduction
\* C8: Conv and ConvTranspose register the bias gradient function exactly
\* when a bias is supplied; invoked on gout of rank n it returns
\* Sum(gout, axes, false) with axes 0, 2, ..., n-1, axis 1 never among them:
\* (0,2,3) and a result of shape (C) for gout (N,C,H,W); the stop-gradient
\* set plays no part.
C8_BiasReduction ==
    /\ (call.via # "none" /\ call.r.op \in {"Conv", "ConvTranspose"} /\ call.r.status = "ok") =>
          ((\E k \in 1..Len(call.r.reg.fns) :
                call.r.reg.fns[k].fn \in {"Conv.b", "ConvTranspose.b"})
             <=> call.r.args.b.has)
    /\ (call.via \in {"Conv.b", "ConvTranspose.b"}) =>
          LET n == ndim(call.gout)
              axis == call.r.args.axis
          IN  /\ parent.args.b.has
              /\ call.r.op = "Sum"
              /\ call.r.args.a = call.gout
              /\ call.r.args.keepdims = FALSE
              /\ {axis[j] : j \in 1..Len(axis)} = {0} \cup 2..(n - 1)
              /\ Len(axis) = n - 1
              /\ (n = 4) => axis = <<0, 2, 3>>
              /\ call.r.out.shape = <<call.gout.shape[2]>>
              /\ call.r.out.tags = call.gout.tags
              /\ (call.gout.shape = parent.out.shape)
                    => call.r.out.shape = parent.args.b.val.shape

\* The bias gradient of a ConvTranspose invoked on a rank-4 gout with a
\* stop-gradient set that names a graph of gout.
C8_Witness ==
    /\ call.via = "ConvTranspose.b"
    /\ ndim(call.gout) = 4
    /\ call.S \cap call.gout.tags # {}
    /\ call.r.out.shape = parent.args.b.val.shape

\* ------------------------------------------------- stop-gradient threading
\* The forward tensor the gradient function via captured from the call p.
CapturedOf(via, p) ==
    CASE via \in {"Conv.x", "ConvTranspose.x"} -> p.args.w
      [] via \in {"Conv.w", "ConvTranspose.w", "ConvGradW.gy"} -> p.args.x
      [] via = "ConvGradW.x" -> p.args.gy

\* Where the captured tensor and gout stand among the inputs of the
\* re-entered operator.
CapturedAt(via) == IF via \in {"Conv.x", "ConvTranspose.x", "ConvTranspose.w"} THEN 2 ELSE 1
GoutAt(via) == 3 - CapturedAt(via)

\* C9: a gradient function invoked with the stop-gradient set S passes the
\* tensor it captured as AsConstant(tensor, S), with this invocation's S, so
\* the node the re-entered operator registers has on it no graph of S, and
\* passes gout as it is, with its graphs.
C9_StopGradientThreading ==
    (call.via \in WiredFns) =>
        LET cap == CapturedOf(call.via, parent)
            ins == InputsInOrder(call.r)
        IN  /\ ins[CapturedAt(call.via)].shape = cap.shape
            /\ ins[CapturedAt(call.via)].tags = cap.tags \ call.S
            /\ ins[GoutAt(call.via)] = call.gout
            /\ (call.r.status = "ok") =>
                  /\ call.r.reg.inputs[CapturedAt(call.via)].tags \cap call.S = {}
                  /\ call.r.reg.inputs[GoutAt(call.via)].tags = call.gout.tags

\* ConvTranspose's w-gradient invoked with a set S that names a graph of the
\* captured x and of gout; ConvGradW registered.
C9_Witness ==
    /\ call.via = "ConvTranspose.w"
    /\ call.r.status = "ok"
    /\ call.S \cap parent.args.x.tags # {}
    /\ call.S \cap call.gout.tags # {}
    /\ call.S # graphs

====
